---- MODULE Spec2Model ----
(***************************************************************************)
(* Model of the Shopify catalog content-update pipeline                    *)
(* (src/shopify_product_update_api.py) and of the CSV variant's handle     *)
(* minter and generation adapter                                           *)
(* (src/shopify_product_description_update.py).                            *)
(*                                                                         *)
(* Python strings are sequences of one-character strings, so that          *)
(* lower(), strip(), replace(), split(), join() and the regular            *)
(* expressions are computed character by character as the code does.       *)
(***************************************************************************)
EXTENDS Integers, Sequences, FiniteSets, TLC

VARIABLES
    store,              \* the remote catalog: sequence of products in id order
    existing_handles,   \* module global existing_handles
    existing_titles,    \* module global existing_titles
    seen_handles,       \* module global seen_handles
    seen_titles,        \* module global seen_titles
    used_handles_file,  \* lines of used_handles.txt (CSV variant)
    mint_log,           \* history: one record per minting call made
    pc,                 \* position of main()
    url,                \* preload's loop variable url: page to request, 0 = None
    requested,          \* history: pages preload has requested in this run
    products,           \* main's local products (result of the draft listing)
    idx,                \* index in products of the item the for loop is at
    cur,                \* main's per-item locals
    calls,              \* history: remote mutation calls issued in this run
    run,                \* number of the current launch of the script
    cleared,            \* history: ids whose tag-clear call has ever succeeded
    generation_calls,   \* history: requests sent to the generation service in this run
    gen_log             \* history: one record per call of an adapter function

vars == <<store, existing_handles, existing_titles, seen_handles, seen_titles,
          used_handles_file, mint_log, pc, url, requested, products, idx, cur,
          calls, run, cleared, generation_calls, gen_log>>

-----------------------------------------------------------------------------
(* Bounds of the model *)

\* products in the remote catalog
NumProducts == 3
\* items per page of products.json as preload walks it (the code asks for 250)
PreloadLimit == 1
\* items per page of the draft listing (the code asks for 250)
DraftLimit == 2
\* minting calls made in one behaviour of MintSpec
MaxMints == 4
\* launches of the script in one behaviour of SpecRerun
MaxRuns == 2
\* adapter calls made in one behaviour of GenSpec
MaxGenCalls == 2

\* calls made in one behaviour of HelperSpec
MaxHelperCalls == 2

-----------------------------------------------------------------------------
(* Python string primitives *)

UpperLetters == <<"A","B","C","D","E","F","G","H","I","J","K","L","M",
                  "N","O","P","Q","R","S","T","U","V","W","X","Y","Z">>
LowerLetters == <<"a","b","c","d","e","f","g","h","i","j","k","l","m",
                  "n","o","p","q","r","s","t","u","v","w","x","y","z">>
Digits == <<"0","1","2","3","4","5","6","7","8","9">>
Whitespace == {" ", "\t", "\n", "\r"}

Range(s) == {s[i] : i \in 1..Len(s)}

SetMin(S) == CHOOSE x \in S : \A y \in S : x <= y
SetMax(S) == CHOOSE x \in S : \A y \in S : x >= y

\* str.lower() on one character
LowerChar(c) ==
    IF \E i \in 1..26 : UpperLetters[i] = c
    THEN LowerLetters[CHOOSE i \in 1..26 : UpperLetters[i] = c]
    ELSE c

\* str.lower()
Lower(s) == [i \in 1..Len(s) |-> LowerChar(s[i])]

\* str.strip()
Strip(s) ==
    LET keep == {i \in 1..Len(s) : s[i] \notin Whitespace}
    IN  IF keep = {} THEN <<>> ELSE SubSeq(s, SetMin(keep), SetMax(keep))

\* str(n) for n >= 0
RECURSIVE Str(_)
Str(n) == IF n < 10 THEN <<Digits[n + 1]>>
          ELSE Str(n \div 10) \o <<Digits[(n % 10) + 1]>>

\* s.startswith(t)
StartsWith(s, t) == Len(t) <= Len(s) /\ SubSeq(s, 1, Len(t)) = t

\* t in s  (substring test)
Contains(s, t) ==
    \E i \in 0..(Len(s) - Len(t)) : SubSeq(s, i + 1, i + Len(t)) = t

\* s.replace(old, ""): every non-overlapping occurrence, found left to right
RECURSIVE Remove(_, _)
Remove(s, old) ==
    IF Len(s) < Len(old) \/ Len(old) = 0 THEN s
    ELSE IF StartsWith(s, old)
         THEN Remove(SubSeq(s, Len(old) + 1, Len(s)), old)
         ELSE <<Head(s)>> \o Remove(Tail(s), old)

\* s.split(c) for a one-character separator c
RECURSIVE Split(_, _)
Split(s, c) ==
    LET at == {i \in 1..Len(s) : s[i] = c}
    IN  IF at = {} THEN <<s>>
        ELSE <<SubSeq(s, 1, SetMin(at) - 1)>>
             \o Split(SubSeq(s, SetMin(at) + 1, Len(s)), c)

\* sep.join(parts)
RECURSIVE Join(_, _)
Join(parts, sep) ==
    IF Len(parts) = 0 THEN <<>>
    ELSE IF Len(parts) = 1 THEN parts[1]
    ELSE parts[1] \o sep \o Join(Tail(parts), sep)

\* parts[:n]
Take(parts, n) == SubSeq(parts, 1, IF Len(parts) < n THEN Len(parts) ELSE n)

-----------------------------------------------------------------------------
(* String constants of the program *)

Brand == <<"S","p","o","r","t","s"," ","e","H","a","r","m","o","n","y"," ",
           "L","i","v","i","n","g">>                \* "Sports eHarmony Living"
Marker == <<"d","s","e","r","s","-","n","e","w">>   \* "dsers-new"
ProductsPath == <<"/","p","r","o","d","u","c","t","s","/">>  \* "/products/"
DefaultDescriptor == <<"p","r","o","d","u","c","t">>         \* "product"
\* keys of CATEGORY_TONE_GUIDE
CATEGORY_TONE_GUIDE ==
    {"Sportswear", "Exercise Equipment & Recovery", "Workout Accessories", "Default"}
\* the handle keeps at most this many hyphen-delimited tokens
MaxHandleWords == 5

-----------------------------------------------------------------------------
(* Identifier minter: generate_unique_handle, ensure_unique_title *)

HandleChars == Range(LowerLetters) \cup Range(Digits) \cup Whitespace \cup {"-"}

\* a filter that lets the full stop through as well
KeepHandleCharsAndDots(s) == SelectSeq(s, LAMBDA c : c \in HandleChars \cup {"."})

\* re.sub(r'[^a-z0-9\s-]', '', base)
KeepHandleChars(s) == SelectSeq(s, LAMBDA c : c \in HandleChars)

\* re.sub(r'\s+', '-', s): every maximal run of whitespace becomes one hyphen
RECURSIVE CollapseWhitespace(_)
CollapseWhitespace(s) ==
    IF Len(s) = 0 THEN <<>>
    ELSE IF Head(s) \in Whitespace
         THEN LET rest == {i \in 1..Len(s) : s[i] \notin Whitespace}
              IN  <<"-">> \o (IF rest = {} THEN <<>>
                              ELSE CollapseWhitespace(SubSeq(s, SetMin(rest), Len(s))))
         ELSE <<Head(s)>> \o CollapseWhitespace(Tail(s))

\* lines 387-390: the base candidate of a handle
HandleBase(primary_kw, descriptor) ==
    LET lowered   == Lower(primary_kw \o <<" ">> \o descriptor)
        kept      == KeepHandleChars(lowered)
        hyphened  == CollapseWhitespace(Strip(kept))
    IN  Join(Take(Split(hyphened, "-"), MaxHandleWords), <<"-">>)

\* a probe that tests the candidate once instead of looping
ProbeHandleOnce(base, candidate, suffix, reserved) ==
    IF candidate \in reserved THEN base \o <<"-">> \o Str(suffix) ELSE candidate

\* lines 391-396: the while loop of generate_unique_handle
RECURSIVE ProbeHandle(_, _, _, _)
ProbeHandle(base, candidate, suffix, reserved) ==
    IF candidate \in reserved
    THEN ProbeHandle(base, base \o <<"-">> \o Str(suffix), suffix + 1, reserved)
    ELSE candidate

\* generate_unique_handle: the handle returned, given the two handle sets
GenerateUniqueHandle(primary_kw, descriptor, seen, existing) ==
    LET base == HandleBase(primary_kw, descriptor)
    IN  ProbeHandle(base, base, 1, seen \cup existing)

\* line 402: title.replace("Sports eHarmony Living", "").strip()
RemoveBrand(title) == Strip(Remove(title, Brand))

\* title (n)
TitleWithSuffix(title, suffix) == title \o <<" ", "(">> \o Str(suffix) \o <<")">>

\* a probe that compares the candidate as written, without lower()
RECURSIVE ProbeTitleCaseSensitive(_, _, _, _)
ProbeTitleCaseSensitive(title, candidate, suffix, reserved) ==
    IF candidate \in reserved
    THEN ProbeTitleCaseSensitive(title, TitleWithSuffix(title, suffix),
                                 suffix + 1, reserved)
    ELSE candidate

\* lines 403-408: the while loop of ensure_unique_title
RECURSIVE ProbeTitle(_, _, _, _)
ProbeTitle(title, candidate, suffix, reserved) ==
    IF Lower(candidate) \in reserved
    THEN ProbeTitle(title, TitleWithSuffix(title, suffix), suffix + 1, reserved)
    ELSE candidate

\* ensure_unique_title: the title returned, given the two title sets
EnsureUniqueTitle(title, seen, existing) ==
    LET stripped == RemoveBrand(title)
    IN  ProbeTitle(stripped, stripped, 1, seen \cup existing)

(* CSV variant: generate_unique_handle of shopify_product_description_update.py *)

\* lines 118-121: the set read back from used_handles.txt
LedgerHandles(file) ==
    {Strip(file[i]) : i \in {j \in 1..Len(file) : Strip(file[j]) # <<>>}}

\* candidate-a<n>
CsvSuffixed(candidate, n) == candidate \o <<"-", "a">> \o Str(n)

\* lines 124-126: the first suffix number not in the ledger
RECURSIVE CsvProbe(_, _, _)
CsvProbe(candidate, suffix_num, existing) ==
    IF CsvSuffixed(candidate, suffix_num) \in existing
    THEN CsvProbe(candidate, suffix_num + 1, existing)
    ELSE suffix_num

\* lines 110-132: the handle returned by the CSV variant
CsvGenerateUniqueHandle(primary_kw, descriptor, file) ==
    LET candidate == HandleBase(primary_kw, descriptor)
        existing  == LedgerHandles(file)
    IN  IF candidate \in existing
        THEN CsvSuffixed(candidate, CsvProbe(candidate, 1, existing))
        ELSE candidate

-----------------------------------------------------------------------------
(* The remote catalog *)

\* handle and title of the product with each id
CatalogHandles ==
    << <<"y","o","g","a","-","m","a","t","-","g","r","i","p">>,   \* yoga-mat-grip
       <<"k","e","t","t","l","e","b","e","l","l","-","s","e","t">>, \* kettlebell-set
       <<"b","a","n","d">>,                                        \* band
       <<"r","o","p","e">> >>                                      \* rope
CatalogTitles ==
    << <<"Y","o","g","a"," ","M","a","t"," ">>,                    \* "Yoga Mat "
       <<"K","E","T","T","L","E","B","E","L","L">>,                \* "KETTLEBELL"
       <<"(","1",")">>,                                            \* "(1)"
       <<"R","o","p","e">> >>                                      \* "Rope"

\* tags, status and product_type a product may carry
Profiles ==
    { [tags |-> Marker, status |-> "draft", product_type |-> ""],
      [tags |-> <<"G","y","m",","," ","D","S","e","r","s","-","N","e","w">>,
       status |-> "draft", product_type |-> "Sportswear"],   \* "Gym, DSers-New"
      [tags |-> Marker \o <<"-","2",","," ","g","y","m">>,
       status |-> "draft", product_type |-> ""],             \* "dsers-new-2, gym"
      [tags |-> <<"g","y","m">>, status |-> "draft", product_type |-> ""],
      [tags |-> Marker, status |-> "active", product_type |-> ""],
      [tags |-> Marker, status |-> "draft", product_type |-> "Yoga"] }

Product(id, profile) ==
    [id |-> id, handle |-> CatalogHandles[id], title |-> CatalogTitles[id],
     tags |-> profile.tags, status |-> profile.status,
     product_type |-> profile.product_type]

\* the catalogs a run may start from: n products, each with some profile
Stores(maxn) ==
    UNION { { [i \in 1..n |-> Product(i, f[i])] : f \in [1..n -> Profiles] }
            : n \in 0..maxn }

-----------------------------------------------------------------------------
(* Paginated lister *)

\* a preload that reserves no handle
SeedHandlesNone(page) == {}

\* lines 265-266: what preload adds for one page of products
SeedHandles(page) == {Lower(Strip(page[i].handle)) : i \in 1..Len(page)}
SeedTitles(page) == {Lower(Strip(page[i].title)) : i \in 1..Len(page)}

\* the store serves a collection in pages of limit items; an empty collection
\* is one empty page
NumPages(coll, limit) ==
    IF Len(coll) = 0 THEN 1 ELSE (Len(coll) + limit - 1) \div limit

\* the products of page k of a collection
PageItems(coll, limit, k) ==
    LET last == IF k * limit < Len(coll) THEN k * limit ELSE Len(coll)
    IN  SubSeq(coll, (k - 1) * limit + 1, last)

\* the Link header of page k: <previous>; rel="previous", <next>; rel="next"
LinkHeader(coll, limit, k) ==
    (IF k > 1 THEN << [url |-> k - 1, rel |-> "previous"] >> ELSE <<>>)
    \o (IF k < NumPages(coll, limit)
        THEN << [url |-> k + 1, rel |-> "next"] >> ELSE <<>>)

\* a parse that takes the first link of the header, whatever its rel
NextUrlFirstLink(link_header) ==
    IF Len(link_header) > 0 THEN link_header[1].url ELSE 0

\* lines 269-275: the url of the first <...>; rel="next" entry, 0 for None
NextUrl(link_header) ==
    LET nexts == {i \in 1..Len(link_header) : link_header[i].rel = "next"}
    IN  IF nexts # {} THEN link_header[SetMin(nexts)].url ELSE 0

\* the collection behind products.json?status=draft
Drafts(catalog) == SelectSeq(catalog, LAMBDA p : p.status = "draft")

\* line 285: any("dsers-new" in t.lower() for t in tags.split(","))
HasMarkerTag(tags) ==
    \E t \in Range(Split(tags, ",")) : Contains(Lower(t), Marker)

\* lines 281-287: what get_draft_dsers_products returns
GetDraftDsersProducts(catalog) ==
    SelectSeq(PageItems(Drafts(catalog), DraftLimit, 1), LAMBDA p : HasMarkerTag(p.tags))

\* a filter that compares the tag with the marker as written, without lower()
UpdatedTagsCaseSensitive(tags) ==
    LET kept == SelectSeq(Split(tags, ","), LAMBDA t : Strip(t) # Marker)
    IN  Join([i \in 1..Len(kept) |-> Strip(kept[i])], <<",", " ">>)

\* lines 317-321: the tag string shopify_remove_dsers_tag sends
UpdatedTags(tags) ==
    LET kept == SelectSeq(Split(tags, ","), LAMBDA t : Lower(Strip(t)) # Marker)
    IN  Join([i \in 1..Len(kept) |-> Strip(kept[i])], <<",", " ">>)

-----------------------------------------------------------------------------
(* Content generator adapter: safe_json_loads, guess_category_from_title,   *)
(* generate_keywords, generate_product_content of both scripts              *)

FallbackPrimary == DefaultDescriptor
FallbackRelated == << <<"s","h","o","p">>,
                      <<"b","u","y"," ","o","n","l","i","n","e">>,
                      <<"b","e","s","t"," ","d","e","a","l">> >>

\* a value json.loads hands back: a string, a list of strings, null or a
\* number; val holds the string, the items of the list, or the digits
JString(s) == [type |-> "string", val |-> <<s>>]
JList(items) == [type |-> "list", val |-> items]
JNull == [type |-> "null", val |-> <<>>]
JNumber(digits) == [type |-> "number", val |-> <<digits>>]

\* str(v), as an f-string formats a value
PyStr(v) ==
    CASE v.type = "string" -> v.val[1]
      [] v.type = "number" -> v.val[1]
      [] v.type = "null"   -> <<"N","o","n","e">>
      [] v.type = "list"   ->
           <<"[">> \o Join([i \in 1..Len(v.val) |-> <<"'">> \o v.val[i] \o <<"'">>],
                           <<",", " ">>) \o <<"]">>

\* bool(v), as a conditional expression tests a value
Truthy(v) ==
    CASE v.type = "string" -> v.val[1] # <<>>
      [] v.type = "number" -> v.val[1] # <<"0">>
      [] v.type = "null"   -> FALSE
      [] v.type = "list"   -> v.val # <<>>

\* v[0] and ", ".join(v) raise TypeError unless v is a str or a list (of str)
Sequential(v) == v.type \in {"list", "string"}

\* the text of a reply, cut into the pieces the parse tells apart: an opening
\* brace, a closing brace, a comma, a "key": value member, or prose (a stretch
\* of text that holds no brace and is no JSON)
Piece(tok) == [tok |-> tok, key |-> "", value |-> JNull]
Member(key, value) == [tok |-> "member", key |-> key, value |-> value]

\* client.chat.completions.create raises, or answers with a text
Raises == [raises |-> TRUE, text |-> <<>>]
Answers(text) == [raises |-> FALSE, text |-> text]

\* json.loads accepts "{" inner "}" when inner is empty or is members
\* separated by commas
WellFormed(inner) ==
    \/ Len(inner) = 0
    \/ /\ Len(inner) % 2 = 1
       /\ \A i \in 1..Len(inner) :
            inner[i].tok = (IF i % 2 = 1 THEN "member" ELSE ",")

\* the dict json.loads builds: a repeated key keeps its last value
DictOf(inner) ==
    LET at == {i \in 1..Len(inner) : inner[i].tok = "member"}
    IN  [k \in {inner[i].key : i \in at} |->
            inner[SetMax({i \in at : inner[i].key = k})].value]

EmptyDict == [k \in {} |-> JNull]

\* a parse that collects the members between the braces whatever else the
\* matched text holds
SafeJsonLoadsLenient(text) ==
    LET opens  == {i \in 1..Len(text) : text[i].tok = "{"}
        closes == {i \in 1..Len(text) : text[i].tok = "}"}
    IN  IF opens = {} \/ closes = {} THEN EmptyDict
        ELSE IF SetMin(opens) > SetMax(closes) THEN EmptyDict
        ELSE DictOf(SubSeq(text, SetMin(opens) + 1, SetMax(closes) - 1))

\* lines 331-337: re.search(r'\{.*\}', text, re.DOTALL) matches from the first
\* opening brace to the last closing brace; the result is {} when nothing
\* matches or json.loads raises on the match
SafeJsonLoads(text) ==
    LET opens  == {i \in 1..Len(text) : text[i].tok = "{"}
        closes == {i \in 1..Len(text) : text[i].tok = "}"}
    IN  IF opens = {} \/ closes = {} THEN EmptyDict
        ELSE IF SetMin(opens) > SetMax(closes) THEN EmptyDict
        ELSE LET inner == SubSeq(text, SetMin(opens) + 1, SetMax(closes) - 1)
             IN  IF WellFormed(inner) THEN DictOf(inner) ELSE EmptyDict

\* data.get(key, default)
Get(data, key, default) == IF key \in DOMAIN data THEN data[key] ELSE default

\* the names of the categories as text
CategoryName ==
    [k \in CATEGORY_TONE_GUIDE |->
        CASE k = "Sportswear" -> <<"S","p","o","r","t","s","w","e","a","r">>
          [] k = "Exercise Equipment & Recovery" ->
               <<"E","x","e","r","c","i","s","e"," ","E","q","u","i","p","m","e",
                 "n","t"," ","&"," ","R","e","c","o","v","e","r","y">>
          [] k = "Workout Accessories" ->
               <<"W","o","r","k","o","u","t"," ","A","c","c","e","s","s","o","r",
                 "i","e","s">>
          [] k = "Default" -> <<"D","e","f","a","u","l","t">>]

\* lines 339-359: the stripped reply when it is a key of the guide, else
\* "Default"; "Default" too when the call raises
GuessCategoryFromTitle(reply) ==
    IF reply.raises THEN "Default"
    ELSE LET cat == Strip(reply.text)
         IN  IF \E k \in CATEGORY_TONE_GUIDE : CategoryName[k] = cat
             THEN CHOOSE k \in CATEGORY_TONE_GUIDE : CategoryName[k] = cat
             ELSE "Default"

\* lines 361-384: each field of the reply, or its own default when the field
\* is missing; both defaults when the call raises
GenerateKeywords(reply) ==
    IF reply.raises
    THEN [primary |-> JString(FallbackPrimary), related |-> JList(FallbackRelated)]
    ELSE LET data == SafeJsonLoads(reply.text)
         IN  [primary |-> Get(data, "primary", JString(FallbackPrimary)),
              related |-> Get(data, "related", JList(FallbackRelated))]

\* shopify_product_description_update.py lines 79-108: the two fields of the
\* reply when both are there, else both defaults
CsvGenerateKeywords(reply) ==
    IF reply.raises
    THEN [primary |-> JString(FallbackPrimary), related |-> JList(FallbackRelated)]
    ELSE LET data == SafeJsonLoads(reply.text)
         IN  IF "primary" \in DOMAIN data /\ "related" \in DOMAIN data
             THEN [primary |-> data["primary"], related |-> data["related"]]
             ELSE [primary |-> JString(FallbackPrimary),
                   related |-> JList(FallbackRelated)]

\* what generate_product_content hands back, or the TypeError it lets out
Content(description_html, seo_title, seo_meta) ==
    [raised |-> FALSE, description_html |-> description_html,
     seo_title |-> seo_title, seo_meta |-> seo_meta]
ContentTypeError ==
    [raised |-> TRUE, description_html |-> JNull, seo_title |-> JNull,
     seo_meta |-> JNull]

\* lines 413-452: the prompt is built before the try (line 439 joins
\* related_kws); then each field of the reply, or its own default when the
\* field is missing; body, title, "" when the call raises. category and
\* primary_kw only feed the prompt
GenerateProductContent(reply, title, body, related_kws) ==
    IF ~Sequential(related_kws) THEN ContentTypeError
    ELSE IF reply.raises THEN Content(JString(body), JString(title), JString(<<>>))
    ELSE LET data == SafeJsonLoads(reply.text)
         IN  Content(Get(data, "description_html", JString(body)),
                     Get(data, "seo_title", JString(title)),
                     Get(data, "seo_meta", JString(<<>>)))

\* shopify_product_description_update.py lines 152-200: the prompt is built
\* before the try (line 180 joins related_keywords); then the three fields of
\* the reply when all are there, else body, title, ""
CsvGenerateProductContent(reply, title, body, related_keywords) ==
    IF ~Sequential(related_keywords) THEN ContentTypeError
    ELSE IF reply.raises THEN Content(JString(body), JString(title), JString(<<>>))
    ELSE LET data == SafeJsonLoads(reply.text)
         IN  IF {"description_html", "seo_title", "seo_meta"} \subseteq DOMAIN data
             THEN Content(data["description_html"], data["seo_title"],
                          data["seo_meta"])
             ELSE Content(JString(body), JString(title), JString(<<>>))

(* Replies of the generation service *)

YogaMat == <<"Y","o","g","a"," ","M","a","t">>
Grip == <<"g","r","i","p">>
Kettlebell == <<"K","e","t","t","l","e","b","e","l","l">>

\* {"primary": "Yoga Mat", "related": <related>}
KeywordObject(related) ==
    << Piece("{"), Member("primary", JString(YogaMat)), Piece(","),
       Member("related", related), Piece("}") >>

\* {"description_html": "<p>Mat</p>", "seo_title": <seo_title>,
\*  "seo_meta": "Soft mat"}
ContentObject(seo_title) ==
    << Piece("{"),
       Member("description_html",
              JString(<<"<","p",">","M","a","t","<","/","p",">">>)), Piece(","),
       Member("seo_title", JString(seo_title)), Piece(","),
       Member("seo_meta", JString(<<"S","o","f","t"," ","m","a","t">>)),
       Piece("}") >>

\* outcomes of the keyword request
KeywordReplies ==
    { Raises,
      Answers(<< Piece("prose") >>),
      Answers(<< Piece("}"), Piece("prose"), Piece("{") >>),
      Answers(<< Piece("{"), Piece("prose"),
                 Member("primary", JString(YogaMat)), Piece("}") >>),
      Answers(<< Piece("{"), Member("primary", JString(YogaMat)), Piece("}"),
                 Piece("prose"),
                 Piece("{"), Member("related", JList(<<Grip>>)), Piece("}") >>),
      Answers(<< Piece("{"), Piece("}") >>),
      Answers(<< Piece("prose") >> \o KeywordObject(JList(<<Grip>>))
              \o << Piece("prose") >>),
      Answers(<< Piece("{"), Member("primary", JString(YogaMat)), Piece("}") >>),
      Answers(<< Piece("{"), Member("related", JList(<<Grip>>)), Piece("}") >>),
      Answers(KeywordObject(JNull)),
      Answers(KeywordObject(JNumber(<<"5">>))) }

\* outcomes of the content request
ContentReplies ==
    { Raises,
      Answers(<< Piece("prose") >>),
      Answers(<< Piece("{"), Piece("}") >>),
      Answers(ContentObject(YogaMat)),
      Answers(<< Piece("{"), Member("seo_title", JString(YogaMat)), Piece("}") >>),
      Answers(<< Piece("{"),
                 Member("description_html",
                        JString(<<"<","p",">","M","a","t","<","/","p",">">>)),
                 Piece(","),
                 Member("seo_meta", JString(<<"S","o","f","t"," ","m","a","t">>)),
                 Piece("}") >>) }

\* outcomes of the category request
CategoryReplies ==
    { Raises,
      Answers(<<" ">> \o CategoryName["Sportswear"] \o <<"\n">>),
      Answers(<<"Y","o","g","a">>),
      Answers(Lower(CategoryName["Default"])) }

\* the arguments the adapter is called with
TitleArgs == { <<"O","l","d"," ","M","a","t">> }
BodyArgs == { <<"<","p",">","o","l","d","<","/","p",">">> }
RelatedArgs == { JList(<<Grip>>), JList(<<>>), JNull }

\* lines 468 and 479: the outcomes of the keyword and the content request for
\* one item of a run
PipelineReplies ==
    { [keywords |-> Answers(KeywordObject(JList(<<Grip>>))),
       content  |-> Answers(ContentObject(YogaMat))],
      [keywords |-> Raises, content |-> Raises],
      [keywords |-> Answers(<< Piece("{"), Member("primary", JString(Kettlebell)),
                               Piece(","), Member("related", JList(<<>>)),
                               Piece("}") >>),
       content  |-> Answers(ContentObject(Brand \o <<" ">> \o Kettlebell))],
      [keywords |-> Answers(<< Piece("prose") >>),
       content  |-> Answers(<< Piece("{"), Member("seo_title", JString(Brand)),
                               Piece("}") >>)],
      [keywords |-> Answers(KeywordObject(JNull)),
       content  |-> Answers(ContentObject(YogaMat))],
      [keywords |-> Answers(KeywordObject(JNumber(<<"5">>))),
       content  |-> Answers(ContentObject(YogaMat))] }

\* lines 468 and 479: keywords and SEO title obtained for product p when
\* 'related' comes back as a list; the body of p is not modelled
GenOutcomes(p) ==
    { LET kw == GenerateKeywords(r.keywords)
      IN  [primary |-> PyStr(kw.primary),
           related |-> kw.related.val,
           seo_title |-> PyStr(GenerateProductContent(r.content, p.title, <<>>,
                                                      kw.related).seo_title)]
      : r \in {x \in PipelineReplies :
                  GenerateKeywords(x.keywords).related.type = "list"} }

\* line 469: related_kws[0] if related_kws else "product"
Descriptor(related_kws) ==
    IF Len(related_kws) > 0 THEN related_kws[1] ELSE DefaultDescriptor

\* lines 466, 468, 479: requests main sends to the generation service for p:
\* the category guess only when product_type is empty, keywords, content
GenerationRequests(p) == (IF p.product_type = "" THEN 1 ELSE 0) + 2

-----------------------------------------------------------------------------
(* The pipeline driver: main() *)

\* a handle comparison with the test inverted
NeedsRedirectInverted(old_handle, new_handle) == new_handle = old_handle

\* line 484: if new_handle != old_handle
NeedsRedirect(old_handle, new_handle) == new_handle # old_handle

NoItem == [id |-> 0, old_handle |-> <<>>, tags |-> <<>>,
           new_handle |-> <<>>, seo_title |-> <<>>]

Call(kind, ok, a, b) ==
    [kind |-> kind, id |-> cur.id, ok |-> ok, a |-> a, b |-> b]

\* one minting call: its base candidate, the value returned, the registry it
\* probed, and the requests it sent to the generation service
MintRecord(fn, base, result, reserved) ==
    [fn |-> fn, base |-> base, result |-> result, reserved |-> reserved,
     regenerations |-> 0]

Init ==
    /\ store \in Stores(NumProducts)
    /\ existing_handles = {} /\ existing_titles = {}
    /\ seen_handles = {} /\ seen_titles = {}
    /\ used_handles_file = <<>>
    /\ mint_log = <<>>
    /\ pc = "preload"
    /\ url = 1
    /\ requested = <<>>
    /\ products = <<>>
    /\ idx = 0
    /\ cur = NoItem
    /\ calls = <<>>
    /\ run = 1
    /\ cleared = {}
    /\ generation_calls = 0
    /\ gen_log = <<>>

\* lines 259-275: one iteration of preload's while loop, the request succeeding
PreloadPage ==
    /\ pc = "preload" /\ url # 0
    /\ LET page == PageItems(store, PreloadLimit, url)
           next_url == NextUrl(LinkHeader(store, PreloadLimit, url))
       IN  /\ existing_handles' = existing_handles \cup SeedHandles(page)
           /\ existing_titles' = existing_titles \cup SeedTitles(page)
           /\ requested' = Append(requested, url)
           /\ url' = next_url
           /\ pc' = IF next_url = 0 THEN "list" ELSE "preload"
    /\ UNCHANGED <<store, seen_handles, seen_titles, used_handles_file, mint_log,
                   products, idx, cur, calls, run, cleared,
                   generation_calls, gen_log>>

\* a failed page request that is swallowed: preload returns with the pages it
\* got and main goes on to the draft listing
PreloadFailSwallowed ==
    /\ pc = "preload" /\ url # 0
    /\ requested' = Append(requested, url)
    /\ pc' = "list"
    /\ UNCHANGED <<store, existing_handles, existing_titles, seen_handles,
                   seen_titles, used_handles_file, mint_log, url, products, idx,
                   cur, calls, run, cleared,
                   generation_calls, gen_log>>

\* lines 260-261: the request fails and raise_for_status() raises out of main
PreloadFail ==
    /\ pc = "preload" /\ url # 0
    /\ requested' = Append(requested, url)
    /\ pc' = "crashed"
    /\ UNCHANGED <<store, existing_handles, existing_titles, seen_handles,
                   seen_titles, used_handles_file, mint_log, url, products, idx,
                   cur, calls, run, cleared,
                   generation_calls, gen_log>>

\* line 459: get_draft_dsers_products() returns
ListDrafts ==
    /\ pc = "list"
    /\ products' = GetDraftDsersProducts(store)
    /\ idx' = 1
    /\ pc' = "item"
    /\ UNCHANGED <<store, existing_handles, existing_titles, seen_handles,
                   seen_titles, used_handles_file, mint_log, url, requested, cur,
                   calls, run, cleared,
                   generation_calls, gen_log>>

\* lines 282-283: the listing request fails
ListFail ==
    /\ pc = "list"
    /\ pc' = "crashed"
    /\ UNCHANGED <<store, existing_handles, existing_titles, seen_handles,
                   seen_titles, used_handles_file, mint_log, url, requested,
                   products, idx, cur, calls, run, cleared,
                   generation_calls, gen_log>>

\* lines 462-480: category, keywords, handle minting, content, title minting
MintItem ==
    /\ pc = "item" /\ idx <= Len(products)
    /\ products[idx].product_type \in CATEGORY_TONE_GUIDE \cup {""}
    /\ \E g \in GenOutcomes(products[idx]) :
         LET p == products[idx]
             descriptor == Descriptor(g.related)
             new_handle == GenerateUniqueHandle(g.primary, descriptor,
                                                seen_handles, existing_handles)
             seo_title == EnsureUniqueTitle(g.seo_title, seen_titles, existing_titles)
         IN  /\ seen_handles' = seen_handles \cup {new_handle}
             /\ existing_handles' = existing_handles \cup {new_handle}
             /\ seen_titles' = seen_titles \cup {Lower(seo_title)}
             /\ existing_titles' = existing_titles \cup {Lower(seo_title)}
             /\ mint_log' = mint_log \o
                  << MintRecord("generate_unique_handle",
                                HandleBase(g.primary, descriptor), new_handle,
                                seen_handles \cup existing_handles),
                     MintRecord("ensure_unique_title", RemoveBrand(g.seo_title),
                                seo_title, seen_titles \cup existing_titles) >>
             /\ cur' = [id |-> p.id, old_handle |-> p.handle, tags |-> p.tags,
                        new_handle |-> new_handle, seo_title |-> seo_title]
    /\ pc' = "update"
    /\ generation_calls' = generation_calls + GenerationRequests(products[idx])
    /\ UNCHANGED <<store, used_handles_file, url, requested, products, idx,
                   calls, run, cleared, gen_log>>

\* line 475: CATEGORY_TONE_GUIDE[category] raises KeyError for a stored
\* product_type that is no key of the guide
ItemKeyError ==
    /\ pc = "item" /\ idx <= Len(products)
    /\ products[idx].product_type \notin CATEGORY_TONE_GUIDE \cup {""}
    /\ pc' = "crashed"
    /\ generation_calls' = generation_calls + 1   \* line 468 has run
    /\ UNCHANGED <<store, existing_handles, existing_titles, seen_handles,
                   seen_titles, used_handles_file, mint_log, url, requested,
                   products, idx, cur, calls, run, cleared, gen_log>>

\* lines 468-479 when generate_keywords hands back a 'related' that is neither
\* a list nor a str: line 469 raises TypeError on a truthy value, which cannot
\* be indexed; a falsy one (null, 0) makes the descriptor "product", line 478
\* mints the handle, and the join of line 439 raises TypeError out of
\* generate_product_content before the content request is sent
ItemTypeError ==
    /\ pc = "item" /\ idx <= Len(products)
    /\ products[idx].product_type \in CATEGORY_TONE_GUIDE \cup {""}
    /\ \E r \in PipelineReplies :
         LET kw == GenerateKeywords(r.keywords)
             new_handle == GenerateUniqueHandle(PyStr(kw.primary), DefaultDescriptor,
                                                seen_handles, existing_handles)
         IN  /\ ~Sequential(kw.related)
             /\ IF Truthy(kw.related)
                THEN UNCHANGED <<seen_handles, existing_handles, mint_log>>
                ELSE /\ seen_handles' = seen_handles \cup {new_handle}
                     /\ existing_handles' = existing_handles \cup {new_handle}
                     /\ mint_log' = Append(mint_log,
                          MintRecord("generate_unique_handle",
                                     HandleBase(PyStr(kw.primary), DefaultDescriptor),
                                     new_handle, seen_handles \cup existing_handles))
    /\ pc' = "crashed"
    /\ generation_calls' = generation_calls
                            + (IF products[idx].product_type = "" THEN 1 ELSE 0) + 1
    /\ UNCHANGED <<store, existing_titles, seen_titles, used_handles_file, url,
                   requested, products, idx, cur, calls, run, cleared, gen_log>>

\* line 482 (289-302): the update request succeeds; line 484 picks the next step
UpdateOk ==
    /\ pc = "update"
    /\ store' = [store EXCEPT ![cur.id].title = cur.seo_title,
                              ![cur.id].handle = cur.new_handle]
    /\ calls' = Append(calls, Call("update", TRUE, cur.new_handle, cur.seo_title))
    /\ pc' = IF NeedsRedirect(cur.old_handle, cur.new_handle)
             THEN "redirect" ELSE "tagclear"
    /\ UNCHANGED <<existing_handles, existing_titles, seen_handles, seen_titles,
                   used_handles_file, mint_log, url, requested, products, idx,
                   cur, run, cleared,
                   generation_calls, gen_log>>

\* a failed update that is swallowed: main goes on to the redirect
UpdateFailContinues ==
    /\ pc = "update"
    /\ calls' = Append(calls, Call("update", FALSE, cur.new_handle, cur.seo_title))
    /\ pc' = "redirect"
    /\ UNCHANGED <<store, existing_handles, existing_titles, seen_handles,
                   seen_titles, used_handles_file, mint_log, url, requested,
                   products, idx, cur, run, cleared,
                   generation_calls, gen_log>>

\* a failed update that gives the minted handle and title back
UpdateFailReleases ==
    /\ pc = "update"
    /\ calls' = Append(calls, Call("update", FALSE, cur.new_handle, cur.seo_title))
    /\ pc' = "crashed"
    /\ seen_handles' = seen_handles \ {cur.new_handle}
    /\ existing_handles' = existing_handles \ {cur.new_handle}
    /\ seen_titles' = seen_titles \ {Lower(cur.seo_title)}
    /\ existing_titles' = existing_titles \ {Lower(cur.seo_title)}
    /\ UNCHANGED <<store, used_handles_file, mint_log, url, requested,
                   products, idx, cur, run, cleared,
                   generation_calls, gen_log>>

\* lines 300-301: the update request fails and the exception leaves main
UpdateFail ==
    /\ pc = "update"
    /\ calls' = Append(calls, Call("update", FALSE, cur.new_handle, cur.seo_title))
    /\ pc' = "crashed"
    /\ UNCHANGED <<store, existing_handles, existing_titles, seen_handles,
                   seen_titles, used_handles_file, mint_log, url, requested,
                   products, idx, cur, run, cleared,
                   generation_calls, gen_log>>

\* the payload of shopify_create_redirect (lines 305-310)
RedirectPath(handle) == ProductsPath \o handle

\* line 485 (304-313): the redirect request succeeds
RedirectOk ==
    /\ pc = "redirect"
    /\ calls' = Append(calls, Call("redirect", TRUE, RedirectPath(cur.old_handle),
                                   RedirectPath(cur.new_handle)))
    /\ pc' = "tagclear"
    /\ UNCHANGED <<store, existing_handles, existing_titles, seen_handles,
                   seen_titles, used_handles_file, mint_log, url, requested,
                   products, idx, cur, run, cleared,
                   generation_calls, gen_log>>

\* lines 311-312: the redirect request fails and the exception leaves main
RedirectFail ==
    /\ pc = "redirect"
    /\ calls' = Append(calls, Call("redirect", FALSE, RedirectPath(cur.old_handle),
                                   RedirectPath(cur.new_handle)))
    /\ pc' = "crashed"
    /\ UNCHANGED <<store, existing_handles, existing_titles, seen_handles,
                   seen_titles, used_handles_file, mint_log, url, requested,
                   products, idx, cur, run, cleared,
                   generation_calls, gen_log>>

\* a tag request after which the for loop stays at the same item
TagClearOkSameItem ==
    /\ pc = "tagclear"
    /\ store' = [store EXCEPT ![cur.id].tags = UpdatedTags(cur.tags)]
    /\ calls' = Append(calls, Call("tagclear", TRUE, UpdatedTags(cur.tags), <<>>))
    /\ cleared' = cleared \cup {cur.id}
    /\ pc' = "item"
    /\ UNCHANGED <<existing_handles, existing_titles, seen_handles, seen_titles,
                   used_handles_file, mint_log, url, requested, products, idx,
                   cur, run, generation_calls, gen_log>>

\* line 488 (315-326): the tag request succeeds; the for loop moves on
TagClearOk ==
    /\ pc = "tagclear"
    /\ store' = [store EXCEPT ![cur.id].tags = UpdatedTags(cur.tags)]
    /\ calls' = Append(calls, Call("tagclear", TRUE, UpdatedTags(cur.tags), <<>>))
    /\ cleared' = cleared \cup {cur.id}
    /\ idx' = idx + 1
    /\ pc' = "item"
    /\ UNCHANGED <<existing_handles, existing_titles, seen_handles, seen_titles,
                   used_handles_file, mint_log, url, requested, products, cur, run,
                   generation_calls, gen_log>>

\* lines 324-325: the tag request fails and the exception leaves main
TagClearFail ==
    /\ pc = "tagclear"
    /\ calls' = Append(calls, Call("tagclear", FALSE, UpdatedTags(cur.tags), <<>>))
    /\ pc' = "crashed"
    /\ UNCHANGED <<store, existing_handles, existing_titles, seen_handles,
                   seen_titles, used_handles_file, mint_log, url, requested,
                   products, idx, cur, run, cleared,
                   generation_calls, gen_log>>

\* line 461: the for loop is exhausted and main returns
Finish ==
    /\ pc = "item" /\ idx > Len(products)
    /\ pc' = "done"
    /\ UNCHANGED <<store, existing_handles, existing_titles, seen_handles,
                   seen_titles, used_handles_file, mint_log, url, requested,
                   products, idx, cur, calls, run, cleared,
                   generation_calls, gen_log>>

\* lines 247-250, 490-491: the script is launched again; a new process starts
\* with empty sets
StartRun ==
    /\ pc \in {"done", "crashed"} /\ run < MaxRuns
    /\ existing_handles' = {} /\ existing_titles' = {}
    /\ seen_handles' = {} /\ seen_titles' = {}
    /\ mint_log' = <<>>
    /\ pc' = "preload"
    /\ url' = 1
    /\ requested' = <<>>
    /\ products' = <<>>
    /\ idx' = 0
    /\ cur' = NoItem
    /\ calls' = <<>>
    /\ run' = run + 1
    /\ generation_calls' = 0
    /\ UNCHANGED <<store, used_handles_file, cleared, gen_log>>

Next ==
    \/ PreloadPage \/ PreloadFail
    \/ ListDrafts \/ ListFail
    \/ MintItem \/ ItemKeyError \/ ItemTypeError
    \/ UpdateOk \/ UpdateFail
    \/ RedirectOk \/ RedirectFail
    \/ TagClearOk \/ TagClearFail
    \/ Finish

\* one launch of the script
Spec == Init /\ [][Next]_vars

NextRerun == Next \/ StartRun

\* the script launched up to MaxRuns times against the same store
SpecRerun == Init /\ [][NextRerun]_vars

-----------------------------------------------------------------------------
(* The identifier minter on its own: a registry seeded from the catalog,    *)
(* then any sequence of minting calls                                       *)

\* catalogs the registry is seeded from
MintStores ==
    { [i \in 1..n |-> Product(i, [tags |-> Marker, status |-> "draft",
                                  product_type |-> ""])]
      : n \in 0..Len(CatalogHandles) }

\* (primary_kw, descriptor) arguments of generate_unique_handle
HandleInputs ==
    { << <<"K","e","t","t","l","e","b","e","l","l">>, <<"S","e","t">> >>,
      << <<"k","e","t","t","l","e","b","e","l","l">>, <<"s","e","t","-","1">> >>,
      << <<"Y","o","g","a"," "," ","M","a","t","!">>, <<"g","r","i","p">> >>,
      << <<"!","!">>, <<"@">> >> }

\* title arguments of ensure_unique_title
TitleInputs ==
    { <<"Y","o","g","a"," ","M","a","t">>,
      Brand,
      <<"Y","O","G","A"," ","M","A","T"," ","(","1",")">> }

InitMint ==
    /\ store \in MintStores
    /\ existing_handles = SeedHandles(store)
    /\ existing_titles = SeedTitles(store)
    /\ seen_handles = {} /\ seen_titles = {}
    /\ used_handles_file = <<>>
    /\ mint_log = <<>>
    /\ pc = "mint"
    /\ url = 0
    /\ requested = <<>>
    /\ products = <<>>
    /\ idx = 0
    /\ cur = NoItem
    /\ calls = <<>>
    /\ run = 1
    /\ cleared = {}
    /\ generation_calls = 0
    /\ gen_log = <<>>

\* lines 386-399: one call of generate_unique_handle
CallGenerateUniqueHandle ==
    /\ pc = "mint" /\ Len(mint_log) < MaxMints
    /\ \E in \in HandleInputs :
         LET candidate == GenerateUniqueHandle(in[1], in[2], seen_handles,
                                               existing_handles)
         IN  /\ seen_handles' = seen_handles \cup {candidate}
             /\ existing_handles' = existing_handles \cup {candidate}
             /\ mint_log' = Append(mint_log,
                  MintRecord("generate_unique_handle", HandleBase(in[1], in[2]),
                             candidate, seen_handles \cup existing_handles))
    /\ UNCHANGED <<store, existing_titles, seen_titles, used_handles_file, pc, url,
                   requested, products, idx, cur, calls, run, cleared,
                   generation_calls, gen_log>>

\* lines 401-411: one call of ensure_unique_title
CallEnsureUniqueTitle ==
    /\ pc = "mint" /\ Len(mint_log) < MaxMints
    /\ \E title \in TitleInputs :
         LET candidate == EnsureUniqueTitle(title, seen_titles, existing_titles)
         IN  /\ seen_titles' = seen_titles \cup {Lower(candidate)}
             /\ existing_titles' = existing_titles \cup {Lower(candidate)}
             /\ mint_log' = Append(mint_log,
                  MintRecord("ensure_unique_title", RemoveBrand(title),
                             candidate, seen_titles \cup existing_titles))
    /\ UNCHANGED <<store, existing_handles, seen_handles, used_handles_file, pc,
                   url, requested, products, idx, cur, calls, run, cleared,
                   generation_calls, gen_log>>

\* shopify_product_description_update.py lines 110-132: one call of the CSV
\* variant's generate_unique_handle, which appends the handle to the ledger
CallCsvGenerateUniqueHandle ==
    /\ pc = "mint" /\ Len(mint_log) < MaxMints
    /\ \E in \in HandleInputs :
         LET handle_candidate == CsvGenerateUniqueHandle(in[1], in[2],
                                                         used_handles_file)
         IN  /\ used_handles_file' = Append(used_handles_file, handle_candidate)
             /\ mint_log' = Append(mint_log,
                  MintRecord("csv_generate_unique_handle",
                             HandleBase(in[1], in[2]), handle_candidate,
                             LedgerHandles(used_handles_file)))
    /\ UNCHANGED <<store, existing_handles, existing_titles, seen_handles,
                   seen_titles, pc, url, requested, products, idx, cur, calls,
                   run, cleared,
                   generation_calls, gen_log>>

NextMint ==
    \/ CallGenerateUniqueHandle
    \/ CallEnsureUniqueTitle
    \/ CallCsvGenerateUniqueHandle

MintSpec == InitMint /\ [][NextMint]_vars

-----------------------------------------------------------------------------
(* The generation adapter on its own: any sequence of calls of its          *)
(* functions, each with some outcome of its request                         *)

InitGen ==
    /\ store = <<>>
    /\ existing_handles = {} /\ existing_titles = {}
    /\ seen_handles = {} /\ seen_titles = {}
    /\ used_handles_file = <<>>
    /\ mint_log = <<>>
    /\ pc = "gen"
    /\ url = 0
    /\ requested = <<>>
    /\ products = <<>>
    /\ idx = 0
    /\ cur = NoItem
    /\ calls = <<>>
    /\ run = 1
    /\ cleared = {}
    /\ generation_calls = 0
    /\ gen_log = <<>>

\* lines 339-359: one call of guess_category_from_title
CallGuessCategoryFromTitle ==
    /\ pc = "gen" /\ Len(gen_log) < MaxGenCalls
    /\ \E reply \in CategoryReplies :
         gen_log' = Append(gen_log,
            [fn |-> "guess_category_from_title", reply |-> reply,
             result |-> GuessCategoryFromTitle(reply)])
    /\ UNCHANGED <<store, existing_handles, existing_titles, seen_handles,
                   seen_titles, used_handles_file, mint_log, pc, url, requested,
                   products, idx, cur, calls, run, cleared, generation_calls>>

\* lines 361-384: one call of generate_keywords
CallGenerateKeywords ==
    /\ pc = "gen" /\ Len(gen_log) < MaxGenCalls
    /\ \E reply \in KeywordReplies :
         gen_log' = Append(gen_log,
            [fn |-> "generate_keywords", reply |-> reply,
             result |-> GenerateKeywords(reply)])
    /\ UNCHANGED <<store, existing_handles, existing_titles, seen_handles,
                   seen_titles, used_handles_file, mint_log, pc, url, requested,
                   products, idx, cur, calls, run, cleared, generation_calls>>

\* shopify_product_description_update.py lines 79-108: one call of the CSV
\* variant's generate_keywords
CallCsvGenerateKeywords ==
    /\ pc = "gen" /\ Len(gen_log) < MaxGenCalls
    /\ \E reply \in KeywordReplies :
         gen_log' = Append(gen_log,
            [fn |-> "csv_generate_keywords", reply |-> reply,
             result |-> CsvGenerateKeywords(reply)])
    /\ UNCHANGED <<store, existing_handles, existing_titles, seen_handles,
                   seen_titles, used_handles_file, mint_log, pc, url, requested,
                   products, idx, cur, calls, run, cleared, generation_calls>>

\* lines 413-452: one call of generate_product_content
CallGenerateProductContent ==
    /\ pc = "gen" /\ Len(gen_log) < MaxGenCalls
    /\ \E reply \in ContentReplies, title \in TitleArgs, body \in BodyArgs,
          related_kws \in RelatedArgs :
         gen_log' = Append(gen_log,
            [fn |-> "generate_product_content", reply |-> reply,
             title |-> title, body |-> body, related_kws |-> related_kws,
             result |-> GenerateProductContent(reply, title, body, related_kws)])
    /\ UNCHANGED <<store, existing_handles, existing_titles, seen_handles,
                   seen_titles, used_handles_file, mint_log, pc, url, requested,
                   products, idx, cur, calls, run, cleared, generation_calls>>

\* shopify_product_description_update.py lines 152-200: one call of the CSV
\* variant's generate_product_content
CallCsvGenerateProductContent ==
    /\ pc = "gen" /\ Len(gen_log) < MaxGenCalls
    /\ \E reply \in ContentReplies, title \in TitleArgs, body \in BodyArgs,
          related_kws \in RelatedArgs :
         gen_log' = Append(gen_log,
            [fn |-> "csv_generate_product_content", reply |-> reply,
             title |-> title, body |-> body, related_kws |-> related_kws,
             result |-> CsvGenerateProductContent(reply, title, body, related_kws)])
    /\ UNCHANGED <<store, existing_handles, existing_titles, seen_handles,
                   seen_titles, used_handles_file, mint_log, pc, url, requested,
                   products, idx, cur, calls, run, cleared, generation_calls>>

\* texts safe_json_loads is called with
JsonTexts == {reply.text : reply \in KeywordReplies \cup ContentReplies}

\* lines 331-337: one call of safe_json_loads
CallSafeJsonLoads ==
    /\ pc = "gen" /\ Len(gen_log) < MaxGenCalls
    /\ \E text \in JsonTexts :
         gen_log' = Append(gen_log,
            [fn |-> "safe_json_loads", text |-> text,
             result |-> SafeJsonLoads(text)])
    /\ UNCHANGED <<store, existing_handles, existing_titles, seen_handles,
                   seen_titles, used_handles_file, mint_log, pc, url, requested,
                   products, idx, cur, calls, run, cleared, generation_calls>>

NextGen ==
    \/ CallGuessCategoryFromTitle
    \/ CallGenerateKeywords
    \/ CallCsvGenerateKeywords
    \/ CallGenerateProductContent
    \/ CallCsvGenerateProductContent
    \/ CallSafeJsonLoads

GenSpec == InitGen /\ [][NextGen]_vars

-----------------------------------------------------------------------------
(* The helper functions on their own, on a wider range of arguments: tag    *)
(* clearing, title minting, handle minting                                  *)

\* tags arguments of shopify_remove_dsers_tag
TagInputs ==
    { Marker,
      <<"G","y","m",","," ","D","S","e","r","s","-","N","e","w">>,  \* "Gym, DSers-New"
      <<" ","d","s","e","r","s","-","n","e","w"," ",",","y","o","g","a">>,
                                                            \* " dsers-new ,yoga"
      <<"a",",",",","b">>,                                   \* "a,,b"
      <<"d","s","e","r","s","-","n","e","w","-","2",","," ","g","y","m">>,
                                                            \* "dsers-new-2, gym"
      <<"x",","," ","d","s","e","r","s","-","n","e","w",","," ","y",",",
        "D","S","E","R","S","-","N","E","W">>,         \* "x, dsers-new, y,DSERS-NEW"
      <<"d","s","e","r","s","-","n","e","w",",">>,           \* "dsers-new,"
      <<"n","e","w",","," ","d","s","e","r","s">>,           \* "new, dsers"
      <<>> }

\* title arguments of ensure_unique_title that carry the brand
BrandTitleInputs ==
    { Brand \o <<" ","M","a","t">>,
      <<"M","a","t"," ">> \o Brand,
      Brand \o <<" ","M","a","t"," ">> \o Brand,
      Brand \o Brand,
      <<"S","p","o","r","t","s"," ","e","H","a","r","m","o","n","y"," ","L">>
        \o Brand \o <<"i","v","i","n","g">>,
                               \* "Sports eHarmony LSports eHarmony Livingiving"
      Lower(Brand) }

\* (primary_kw, descriptor) arguments of generate_unique_handle
WideHandleInputs ==
    { << <<"P","r","e","m","i","u","m"," ","Y","o","g","a"," ","M","a","t"," ",
           "N","o","n"," ","S","l","i","p"," ","E","x","t","r","a">>,
         <<"T","h","i","c","k"," ","G","r","i","p">> >>,
      << <<"A","-","B","-","C","-","D","-","E","-","F">>, <<"g">> >>,
      << <<"Y","o","g","a","\t","M","a","t"," "," ">>, <<" ","P","r","o","!">> >>,
      << <<"1","0","0","%"," ","C","o","t","t","o","n">>,
         <<"T","-","S","h","i","r","t">> >>,
      << <<"-","-","x","-","-">>, <<"y">> >>,
      << <<"_","M","a","t",".","2">>, <<"(","n","e","w",")">> >>,
      << <<"!","!">>, <<"@">> >> }

InitHelper ==
    /\ store = <<>>
    /\ existing_handles = {} /\ existing_titles = {}
    /\ seen_handles = {} /\ seen_titles = {}
    /\ used_handles_file = <<>>
    /\ mint_log = <<>>
    /\ pc = "helper"
    /\ url = 0
    /\ requested = <<>>
    /\ products = <<>>
    /\ idx = 0
    /\ cur = NoItem
    /\ calls = <<>>
    /\ run = 1
    /\ cleared = {}
    /\ generation_calls = 0
    /\ gen_log = <<>>

\* lines 315-326: one call of shopify_remove_dsers_tag; a is the tag string it
\* sends, b the tags it was called with
CallShopifyRemoveDsersTag ==
    /\ pc = "helper" /\ Len(calls) + Len(mint_log) < MaxHelperCalls
    /\ \E tags \in TagInputs :
         calls' = Append(calls, Call("tagclear", TRUE, UpdatedTags(tags), tags))
    /\ UNCHANGED <<store, existing_handles, existing_titles, seen_handles,
                   seen_titles, used_handles_file, mint_log, pc, url, requested,
                   products, idx, cur, run, cleared, generation_calls, gen_log>>

\* lines 401-411: one call of ensure_unique_title on a title with the brand
CallEnsureUniqueTitleBrand ==
    /\ pc = "helper" /\ Len(calls) + Len(mint_log) < MaxHelperCalls
    /\ \E title \in BrandTitleInputs :
         LET candidate == EnsureUniqueTitle(title, seen_titles, existing_titles)
         IN  /\ seen_titles' = seen_titles \cup {Lower(candidate)}
             /\ existing_titles' = existing_titles \cup {Lower(candidate)}
             /\ mint_log' = Append(mint_log,
                  MintRecord("ensure_unique_title", RemoveBrand(title),
                             candidate, seen_titles \cup existing_titles))
    /\ UNCHANGED <<store, existing_handles, seen_handles, used_handles_file, pc,
                   url, requested, products, idx, cur, calls, run, cleared,
                   generation_calls, gen_log>>

\* lines 386-399: one call of generate_unique_handle on wider keyword material
CallGenerateUniqueHandleWide ==
    /\ pc = "helper" /\ Len(calls) + Len(mint_log) < MaxHelperCalls
    /\ \E in \in WideHandleInputs :
         LET candidate == GenerateUniqueHandle(in[1], in[2], seen_handles,
                                               existing_handles)
         IN  /\ seen_handles' = seen_handles \cup {candidate}
             /\ existing_handles' = existing_handles \cup {candidate}
             /\ mint_log' = Append(mint_log,
                  MintRecord("generate_unique_handle", HandleBase(in[1], in[2]),
                             candidate, seen_handles \cup existing_handles))
    /\ UNCHANGED <<store, existing_titles, seen_titles, used_handles_file, pc, url,
                   requested, products, idx, cur, calls, run, cleared,
                   generation_calls, gen_log>>

NextHelper ==
    \/ CallShopifyRemoveDsersTag
    \/ CallEnsureUniqueTitleBrand
    \/ CallGenerateUniqueHandleWide

HelperSpec == InitHelper /\ [][NextHelper]_vars

-----------------------------------------------------------------------------
(* Properties *)

HandleMints == {i \in 1..Len(mint_log) : mint_log[i].fn = "generate_unique_handle"}
TitleMints == {i \in 1..Len(mint_log) : mint_log[i].fn = "ensure_unique_title"}
CsvHandleMints ==
    {i \in 1..Len(mint_log) : mint_log[i].fn = "csv_generate_unique_handle"}

\* equality under case-insensitive, whitespace-trimmed comparison
SameIdentifier(a, b) == Lower(Strip(a)) = Lower(Strip(b))

\* C1: after the registry is seeded from the catalog, no two returned handles
\* and no two returned titles are equal ignoring case, and no returned handle
\* or title equals, ignoring case and surrounding whitespace, a handle or title
\* of the seed.
C1_GlobalUniqueness ==
    /\ \A i, j \in HandleMints :
         i # j => Lower(mint_log[i].result) # Lower(mint_log[j].result)
    /\ \A i, j \in TitleMints :
         i # j => Lower(mint_log[i].result) # Lower(mint_log[j].result)
    /\ \A i \in HandleMints : \A k \in 1..Len(store) :
         ~SameIdentifier(mint_log[i].result, store[k].handle)
    /\ \A i \in TitleMints : \A k \in 1..Len(store) :
         ~SameIdentifier(mint_log[i].result, store[k].title)

\* the minting call m returned base<sep>n for the smallest n >= 1 whose
\* candidate was not reserved
SmallestFreeSuffix(m, sep) ==
    \E n \in 1..(Cardinality(m.reserved) + 1) :
        /\ m.result = m.base \o sep \o Str(n)
        /\ m.result \notin m.reserved
        /\ \A k \in 1..(n - 1) : (m.base \o sep \o Str(k)) \in m.reserved

\* C2 as stated: every generate_unique_handle (either script) whose base
\* candidate is reserved returns base-n for the smallest n >= 1 such that
\* base-n is not reserved.
C2_NumericSuffix ==
    \A i \in HandleMints \cup CsvHandleMints :
        mint_log[i].base \in mint_log[i].reserved
            => SmallestFreeSuffix(mint_log[i], <<"-">>)

\* C2 amended: with the base candidate reserved, the pipeline's
\* generate_unique_handle returns base-n and the CSV script's returns base-a<n>,
\* each for the smallest n >= 1 whose candidate is not reserved; a base that is
\* not reserved is returned as it is.
C2_SuffixPerScript ==
    /\ \A i \in HandleMints :
         IF mint_log[i].base \in mint_log[i].reserved
         THEN SmallestFreeSuffix(mint_log[i], <<"-">>)
         ELSE mint_log[i].result = mint_log[i].base
    /\ \A i \in CsvHandleMints :
         IF mint_log[i].base \in mint_log[i].reserved
         THEN SmallestFreeSuffix(mint_log[i], <<"-", "a">>)
         ELSE mint_log[i].result = mint_log[i].base

\* a pipeline mint that had to skip base-1 and a CSV mint that took a suffix
C2_Witness ==
    /\ \E i \in HandleMints :
         /\ mint_log[i].base \in mint_log[i].reserved
         /\ mint_log[i].result = mint_log[i].base \o <<"-", "2">>
    /\ \E j \in CsvHandleMints :
         /\ mint_log[j].base \in mint_log[j].reserved
         /\ mint_log[j].result = mint_log[j].base \o <<"-", "a", "1">>

\* the title m returned is the stripped title with a numeric suffix
HasNumericSuffix(m) ==
    \E n \in 1..(Cardinality(m.reserved) + 1) :
        m.result = TitleWithSuffix(m.base, n)

\* C3 as stated: a title is returned with a numeric suffix only after 5
\* regeneration requests have been made for it.
C3_RegenerateBeforeSuffix ==
    \A i \in TitleMints :
        HasNumericSuffix(mint_log[i]) => mint_log[i].regenerations >= 5

\* C3 amended: ensure_unique_title sends no regeneration request; when the
\* stripped title is reserved (ignoring case) it returns at once "title (n)"
\* for the smallest n >= 1 whose lowercase form is not reserved, and otherwise
\* the stripped title itself.
C3_SuffixAtFirstCollision ==
    \A i \in TitleMints :
        LET m == mint_log[i]
        IN  /\ m.regenerations = 0
            /\ IF Lower(m.base) \in m.reserved
               THEN \E n \in 1..(Cardinality(m.reserved) + 1) :
                       /\ m.result = TitleWithSuffix(m.base, n)
                       /\ Lower(m.result) \notin m.reserved
                       /\ \A k \in 1..(n - 1) :
                            Lower(TitleWithSuffix(m.base, k)) \in m.reserved
               ELSE m.result = m.base

\* a title that differs from a reserved one only by case got the suffix (2)
C3_Witness ==
    \E i \in TitleMints :
        /\ mint_log[i].base # Lower(mint_log[i].base)
        /\ Lower(mint_log[i].base) \in mint_log[i].reserved
        /\ mint_log[i].result = TitleWithSuffix(mint_log[i].base, 2)

\* ids of the products the current listing selected
Selected == {products[i].id : i \in 1..Len(products)}

\* the state main is in when get_draft_dsers_products has just returned
JustListed == pc = "item" /\ idx = 1 /\ calls = <<>> /\ generation_calls = 0

\* C4: an item whose tag-clear call has succeeded is not selected by a later
\* get_draft_dsers_products call.
C4_ClearedNotSelectedAgain ==
    JustListed => Selected \cap cleared = {}

\* main has returned or an exception has left it
RunEnded == pc \in {"done", "crashed"}

\* position in products of the item with this id
PositionOf(id) == CHOOSE i \in 1..Len(products) : products[i].id = id

\* an update call was issued in this run for every item listed after id
RemainingProcessed(id) ==
    \A i \in (PositionOf(id) + 1)..Len(products) :
        \E k \in 1..Len(calls) :
            calls[k].kind = "update" /\ calls[k].id = products[i].id

\* C5: when the update call fails for an item, no further call is made for
\* that item and every remaining listed item is still processed in the run.
C5_UpdateFailureSkipsOnlyItem ==
    RunEnded =>
        \A k \in 1..Len(calls) :
            (calls[k].kind = "update" /\ ~calls[k].ok) =>
                /\ \A j \in (k + 1)..Len(calls) : calls[j].id # calls[k].id
                /\ RemainingProcessed(calls[k].id)

\* C6: when the redirect call fails for an item, the tag-clear call for that
\* item is still issued and every remaining listed item is still processed.
C6_RedirectFailureSwallowed ==
    RunEnded =>
        \A k \in 1..Len(calls) :
            (calls[k].kind = "redirect" /\ ~calls[k].ok) =>
                /\ \E j \in (k + 1)..Len(calls) :
                     calls[j].kind = "tagclear" /\ calls[j].id = calls[k].id
                /\ RemainingProcessed(calls[k].id)

\* C7: when the tag-clear call fails for an item, the run is not aborted and
\* every remaining listed item is still processed.
C7_TagClearFailureNonFatal ==
    RunEnded =>
        \A k \in 1..Len(calls) :
            (calls[k].kind = "tagclear" /\ ~calls[k].ok) =>
                /\ pc = "done"
                /\ RemainingProcessed(calls[k].id)

\* ids of the draft products of the catalog that carry the marker
Eligible ==
    {store[k].id : k \in {j \in 1..Len(store) :
        store[j].status = "draft" /\ HasMarkerTag(store[j].tags)}}

\* C8: the listing returns every draft item that carries the marker, on
\* whichever page of the draft collection it lies.
C8_ListingCoversEveryPage ==
    JustListed => Selected = Eligible

\* C9: preload requests the pages of the catalog in order, each once, and
\* leaves its loop right after the last page; the registry then holds the
\* trimmed lowercase handle and title of every product, and nothing else.
C9_PreloadWalksEveryPageOnce ==
    LET pages == NumPages(store, PreloadLimit)
    IN  /\ Len(requested) <= pages
        /\ \A i \in 1..Len(requested) : requested[i] = i
        /\ pc = "preload" => url = Len(requested) + 1
        /\ url = 0 => Len(requested) = pages
        /\ pc = "list" =>
             /\ url = 0
             /\ existing_handles =
                  {Lower(Strip(store[k].handle)) : k \in 1..Len(store)}
             /\ existing_titles =
                  {Lower(Strip(store[k].title)) : k \in 1..Len(store)}

\* preload has walked a chain of three pages, the middle one linking both ways
C9_Witness == pc = "list" /\ Len(requested) = 3 /\ Len(store) = 3

\* the handle the listed item with this id had before the run
OldHandle(id) == products[PositionOf(id)].handle

\* C10: for every item whose update call succeeded, a redirect call is issued
\* exactly when the old handle differs from the new one; it is then the one
\* call that follows the update, from /products/<old> to /products/<new>.
C10_RedirectIffHandleChanged ==
    /\ \A k \in 1..Len(calls) :
         (calls[k].kind = "update" /\ calls[k].ok) =>
            LET old == OldHandle(calls[k].id)
                new == calls[k].a
                redirects == {j \in 1..Len(calls) :
                    calls[j].kind = "redirect" /\ calls[j].id = calls[k].id}
                decided == ~(k = Len(calls) /\ pc = "redirect")
            IN  /\ decided => (redirects # {} <=> old # new)
                /\ redirects \subseteq {k + 1}
                /\ \A j \in redirects :
                     /\ calls[j].a = ProductsPath \o old
                     /\ calls[j].b = ProductsPath \o new
    /\ \A j \in 1..Len(calls) :
         calls[j].kind = "redirect" =>
            j > 1 /\ calls[j - 1].kind = "update" /\ calls[j - 1].ok
                  /\ calls[j - 1].id = calls[j].id

\* an item was renamed and its one redirect call has been issued
C10_Witness ==
    /\ pc = "tagclear"
    /\ Len(calls) >= 2
    /\ calls[Len(calls)].kind = "redirect"
    /\ calls[Len(calls) - 1].a # cur.old_handle

\* the item main is at carries a product_type that line 475 can look up
CategoryKnown ==
    /\ idx \in 1..Len(products)
    /\ products[idx].product_type \in CATEGORY_TONE_GUIDE \cup {""}

\* C11: whatever the category, keyword and content requests of an item hand
\* back (an exception, no JSON object, missing fields, a null or non-list
\* 'related', an out-of-set category), the run does not end at that item
\* without its update call having been issued.
C11_GenerationNeverAbortsItem ==
    (pc = "crashed" /\ CategoryKnown) =>
        \E k \in 1..Len(calls) :
            calls[k].kind = "update" /\ calls[k].id = products[idx].id

\* entries of gen_log by function
KeywordCalls ==
    {i \in 1..Len(gen_log) :
        gen_log[i].fn \in {"generate_keywords", "csv_generate_keywords"}}
ContentCalls ==
    {i \in 1..Len(gen_log) :
        gen_log[i].fn \in {"generate_product_content",
                           "csv_generate_product_content"}}

\* the text holds a JSON object: an opening brace, members separated by
\* commas, a closing brace
HoldsJsonObject(text) ==
    \E i, j \in 1..Len(text) :
        /\ i < j /\ text[i].tok = "{" /\ text[j].tok = "}"
        /\ WellFormed(SubSeq(text, i + 1, j - 1))

\* C12: when the keyword request raises, or its reply holds no parseable JSON
\* object, generate_keywords (either script) returns exactly
\* ("product", ["shop", "buy online", "best deal"]).
C12_KeywordFallback ==
    \A i \in KeywordCalls :
        (gen_log[i].reply.raises \/ ~HoldsJsonObject(gen_log[i].reply.text)) =>
            /\ gen_log[i].result.primary = JString(<<"p","r","o","d","u","c","t">>)
            /\ gen_log[i].result.related =
                 JList(<< <<"s","h","o","p">>,
                          <<"b","u","y"," ","o","n","l","i","n","e">>,
                          <<"b","e","s","t"," ","d","e","a","l">> >>)

\* the pipeline's generate_keywords got a reply whose braces enclose no JSON,
\* and the CSV variant's request raised
C12_Witness ==
    /\ \E i \in KeywordCalls :
         /\ gen_log[i].fn = "generate_keywords"
         /\ ~gen_log[i].reply.raises
         /\ \E k \in 1..Len(gen_log[i].reply.text) :
              gen_log[i].reply.text[k].tok = "member"
         /\ ~HoldsJsonObject(gen_log[i].reply.text)
         /\ gen_log[i].result.primary = JString(FallbackPrimary)
    /\ \E j \in KeywordCalls :
         /\ gen_log[j].fn = "csv_generate_keywords"
         /\ gen_log[j].reply.raises
         /\ gen_log[j].result.related = JList(FallbackRelated)

\* the fields of the object the reply parses to
ReplyFields(reply) ==
    IF reply.raises THEN {} ELSE DOMAIN SafeJsonLoads(reply.text)

\* C13: when the keyword reply parses to an object that holds only 'primary'
\* or only 'related', generate_keywords (either script) returns the whole
\* fallback pair, not a mix of returned and fallback fields.
C13_KeywordFallbackIsWhole ==
    \A i \in KeywordCalls :
        Cardinality(ReplyFields(gen_log[i].reply) \cap {"primary", "related"}) = 1
            => /\ gen_log[i].result.primary = JString(FallbackPrimary)
               /\ gen_log[i].result.related = JList(FallbackRelated)

\* C14: when the content request raises or its reply lacks any of
\* description_html, seo_title, seo_meta, generate_product_content (either
\* script) returns the original body, the original title and an empty meta,
\* all three together.
C14_ContentFallbackIsWhole ==
    \A i \in ContentCalls :
        ( /\ ~gen_log[i].result.raised
          /\ ~({"description_html", "seo_title", "seo_meta"}
                  \subseteq ReplyFields(gen_log[i].reply)) )
            => /\ gen_log[i].result.description_html = JString(gen_log[i].body)
               /\ gen_log[i].result.seo_title = JString(gen_log[i].title)
               /\ gen_log[i].result.seo_meta = JString(<<>>)

\* an exception left main out of preload or out of the draft listing
ListingFailed == pc = "crashed" /\ idx = 0

\* C15: when preload (on any page) or the draft listing fails, the run ends
\* there with no update, redirect or tag-clear call issued, no generation
\* request sent and no identifier minted; calls, requests and mints only
\* ever happen after both listings have returned.
C15_ListingFailureAbortsRun ==
    /\ ListingFailed =>
         /\ calls = <<>> /\ mint_log = <<>> /\ generation_calls = 0
         /\ seen_handles = {} /\ seen_titles = {}
         /\ ~ENABLED Next
    /\ (calls # <<>> \/ mint_log # <<>> \/ generation_calls # 0) =>
         (url = 0 /\ idx >= 1)

\* preload failed on its second page, after seeding from the first
C15_Witness ==
    /\ ListingFailed
    /\ Len(requested) = 2 /\ url = 2
    /\ existing_handles # {}

\* C17: a redirect or tag-clear call of an item comes after a successful
\* update call of that item, the redirect before the tag clear and nothing
\* after the tag clear; the update is the item's first call, and the handle
\* and title it sends were minted (and reserved) before it is issued.
C17_CallOrderWithinItem ==
    /\ \A j \in 1..Len(calls) :
         /\ calls[j].kind \in {"redirect", "tagclear"} =>
              \E k \in 1..(j - 1) :
                  calls[k].kind = "update" /\ calls[k].ok
                      /\ calls[k].id = calls[j].id
         /\ calls[j].kind = "redirect" =>
              \A k \in (j + 1)..Len(calls) :
                  calls[k].id = calls[j].id => calls[k].kind = "tagclear"
         /\ calls[j].kind = "tagclear" =>
              \A k \in (j + 1)..Len(calls) : calls[k].id # calls[j].id
         /\ calls[j].kind = "update" =>
              /\ \A k \in 1..(j - 1) : calls[k].id # calls[j].id
              /\ \E h \in HandleMints : mint_log[h].result = calls[j].a
              /\ \E t \in TitleMints : mint_log[t].result = calls[j].b
    /\ pc = "update" =>
         /\ mint_log # <<>>
         /\ mint_log[Len(mint_log)].result = cur.seo_title
         /\ cur.new_handle \in seen_handles
         /\ Lower(cur.seo_title) \in seen_titles

\* an item has had its update, its redirect and its tag clear, in this order
C17_Witness ==
    \E j \in 1..(Len(calls) - 2) :
        /\ calls[j].kind = "update" /\ calls[j].ok
        /\ calls[j + 1].kind = "redirect" /\ calls[j + 1].ok
        /\ calls[j + 2].kind = "tagclear" /\ calls[j + 2].ok
        /\ calls[j + 1].id = calls[j].id /\ calls[j + 2].id = calls[j].id

\* ids whose update call succeeded and whose tag clear has not
UpdatedNotCleared ==
    {calls[k].id : k \in {j \in 1..Len(calls) :
                              calls[j].kind = "update" /\ calls[j].ok}}
    \ {calls[k].id : k \in {j \in 1..Len(calls) :
                              calls[j].kind = "tagclear" /\ calls[j].ok}}

\* C18: the calls of one item are consecutive and the items follow the order
\* of the listing; no item gets two update calls in a run; at most one item
\* is updated with its marker not yet cleared.
C18_OneItemAtATime ==
    /\ \A i, k \in 1..Len(calls) :
         i < k => PositionOf(calls[i].id) <= PositionOf(calls[k].id)
    /\ \A i, k \in 1..Len(calls) :
         (calls[i].kind = "update" /\ calls[k].kind = "update"
              /\ calls[i].id = calls[k].id) => i = k
    /\ Cardinality(UpdatedNotCleared) <= 1

\* the first item is done and the second has been updated, not yet cleared
C18_Witness ==
    /\ pc = "tagclear" /\ idx = 2
    /\ UpdatedNotCleared = {products[2].id}
    /\ \E k \in 1..Len(calls) :
         calls[k].kind = "tagclear" /\ calls[k].id = products[1].id

\* C19: no step of a run takes a handle or a title out of the registry, not
\* even the failure of an update; and every identifier a minting call has
\* returned is in the registry.
C19_RegistryAppendOnly ==
    /\ [][ /\ existing_handles \subseteq existing_handles'
           /\ seen_handles \subseteq seen_handles'
           /\ existing_titles \subseteq existing_titles'
           /\ seen_titles \subseteq seen_titles' ]_vars
    /\ [](/\ \A i \in HandleMints :
               mint_log[i].result \in seen_handles \cap existing_handles
          /\ \A i \in TitleMints :
               Lower(mint_log[i].result) \in seen_titles \cap existing_titles)

\* the update of an item failed and its handle and title are still reserved
C19_Witness ==
    /\ pc = "crashed" /\ calls # <<>>
    /\ calls[Len(calls)].kind = "update" /\ ~calls[Len(calls)].ok
    /\ calls[Len(calls)].a \in seen_handles \cap existing_handles
    /\ Lower(calls[Len(calls)].b) \in seen_titles \cap existing_titles

\* C20: once preload has returned, the registry holds the trimmed lowercase
\* handle and title of every product of the store, and no two products of the
\* store have the same handle or the same title, compared trimmed and
\* ignoring case.
C20_RegistryCoversStore ==
    url = 0 =>
        /\ \A k \in 1..Len(store) :
             /\ Lower(Strip(store[k].handle)) \in existing_handles
             /\ Lower(Strip(store[k].title)) \in existing_titles
        /\ \A j, k \in 1..Len(store) :
             j # k => /\ ~SameIdentifier(store[j].handle, store[k].handle)
                      /\ ~SameIdentifier(store[j].title, store[k].title)

\* the tags a comma-separated tag string lists: its items, trimmed, the empty
\* ones left out
TagsOf(tags) ==
    LET items == Split(tags, ",")
    IN  SelectSeq([i \in 1..Len(items) |-> Strip(items[i])], LAMBDA t : t # <<>>)

\* C21: the tag string shopify_remove_dsers_tag sends lists every tag of the
\* original string that is not the marker (compared trimmed, ignoring case),
\* in the original order, and lists no tag equal to the marker.
C21_TagClearKeepsOtherTags ==
    \A k \in 1..Len(calls) :
        calls[k].kind = "tagclear" =>
            LET sent == TagsOf(calls[k].a)
                orig == TagsOf(calls[k].b)
            IN  /\ sent = SelectSeq(orig, LAMBDA t : Lower(t) # Marker)
                /\ \A i \in 1..Len(sent) : Lower(sent[i]) # Marker

\* the marker was taken out twice, once in capitals, from between other tags
C21_Witness ==
    \E k \in 1..Len(calls) :
        /\ calls[k].kind = "tagclear"
        /\ Len(TagsOf(calls[k].b)) = 4
        /\ calls[k].a = <<"x", ",", " ", "y">>

\* opening braces minus closing braces among the pieces i..j of a text
BraceDepth(text, i, j) ==
    Cardinality({k \in i..j : text[k].tok = "{"})
    - Cardinality({k \in i..j : text[k].tok = "}"})

\* the piece that closes the brace opened at piece i, 0 if none does
ClosingBrace(text, i) ==
    LET ends == {j \in (i + 1)..Len(text) : BraceDepth(text, i, j) = 0}
    IN  IF ends = {} THEN 0 ELSE SetMin(ends)

\* what parsing the first balanced {...} block of a text gives: the object it
\* holds, {} when there is no such block or the block is no JSON
FirstBlockParsed(text) ==
    LET starts == {i \in 1..Len(text) :
                      text[i].tok = "{" /\ ClosingBrace(text, i) # 0}
    IN  IF starts = {} THEN EmptyDict
        ELSE LET i == SetMin(starts)
                 inner == SubSeq(text, i + 1, ClosingBrace(text, i) - 1)
             IN  IF WellFormed(inner) THEN DictOf(inner) ELSE EmptyDict

\* C22: safe_json_loads returns the object held by the first balanced {...}
\* block of the reply, also when more text with braces follows that block,
\* and returns {} when there is no such block or it does not parse.
C22_ParsesFirstBalancedBlock ==
    \A i \in 1..Len(gen_log) :
        gen_log[i].fn = "safe_json_loads" =>
            gen_log[i].result = FirstBlockParsed(gen_log[i].text)

\* C23: no title returned by ensure_unique_title contains the brand
\* "Sports eHarmony Living", also when the input carries it several times or
\* when taking one occurrence out joins the text around it into another.
C23_TitleFreeOfBrand ==
    \A i \in TitleMints : ~Contains(mint_log[i].result, Brand)

\* the characters of a URL-safe handle
UrlSafeChars == Range(LowerLetters) \cup Range(Digits) \cup {"-"}

\* C24: every handle generate_unique_handle returns is made of lowercase
\* ASCII letters, digits and hyphens only; it is its base candidate or the
\* base candidate with a numeric suffix, and the base candidate has at most
\* 5 hyphen-delimited tokens.
C24_HandleUrlSafe ==
    \A i \in HandleMints :
        LET m == mint_log[i]
        IN  /\ Range(m.result) \subseteq UrlSafeChars
            /\ Len(Split(m.base, "-")) <= 5
            /\ \/ m.result = m.base
               \/ \E n \in 1..(Cardinality(m.reserved) + 1) :
                     m.result = m.base \o <<"-">> \o Str(n)

\* keyword material of eight words in mixed case was cut to five tokens, and
\* the second handle minted from it took a suffix
C24_Witness ==
    \E i \in HandleMints :
        /\ mint_log[i].base =
             <<"p","r","e","m","i","u","m","-","y","o","g","a","-","m","a","t",
               "-","n","o","n","-","s","l","i","p">>
        /\ mint_log[i].result = mint_log[i].base \o <<"-", "1">>

\* C25: with the registry seeded by preload from the whole catalog, the
\* handle minted for an item differs from the handle the item had: a base
\* candidate equal to the old handle comes back with a numeric suffix; so
\* every update call carries a new handle and every successful update is
\* followed by a redirect call for its item.
C25_NewHandleDiffersFromOld ==
    /\ pc = "update" =>
         LET m == mint_log[Len(mint_log) - 1]
         IN  /\ m.result = cur.new_handle
             /\ cur.new_handle # cur.old_handle
             /\ m.base = cur.old_handle =>
                  \E n \in 1..(Cardinality(m.reserved) + 1) :
                      cur.new_handle = cur.old_handle \o <<"-">> \o Str(n)
    /\ \A k \in 1..Len(calls) :
         calls[k].kind = "update" =>
            /\ calls[k].a # OldHandle(calls[k].id)
            /\ calls[k].ok =>
                 \/ k = Len(calls) /\ pc = "redirect"
                 \/ /\ k < Len(calls)
                    /\ calls[k + 1].kind = "redirect"
                    /\ calls[k + 1].id = calls[k].id

\* the keywords of an item gave its own old handle as base candidate; it was
\* minted with a suffix and the redirect call has been issued
C25_Witness ==
    /\ pc = "tagclear"
    /\ mint_log[Len(mint_log) - 1].base = cur.old_handle
    /\ cur.new_handle = cur.old_handle \o <<"-", "1">>
    /\ calls[Len(calls)].kind = "redirect"
    /\ calls[Len(calls)].id = cur.id

\* C26: an item whose stored product_type is not empty and is none of the
\* four categories is not given up before minting: its update call is issued.
C26_UnknownCategoryProceeds ==
    ( /\ pc = "crashed" /\ idx \in 1..Len(products)
      /\ products[idx].product_type \notin CATEGORY_TONE_GUIDE \cup {""} )
        => \E k \in 1..Len(calls) :
              calls[k].kind = "update" /\ calls[k].id = products[idx].id

\* C27: every handle returned by generate_unique_handle is a non-empty
\* string, also for keyword material made only of characters outside
\* [a-z0-9], whitespace and hyphen.
C27_HandleNonEmpty ==
    \A i \in HandleMints : mint_log[i].result # <<>>

====
